---- MODULE Spec2Model ----
(***************************************************************************)
(* Sliding-window rate limiter of daily-notes-api                          *)
(* (internal/middleware/middleware.go): the registry of Visitor records,   *)
(* the isAllowed check run by concurrent request workers, and the          *)
(* cleanupVisitors reaper goroutine driven by a ticker.                    *)
(*                                                                         *)
(* Time is a discrete global clock; every time.Now() in the code is a read *)
(* of that clock at the step that executes it.  Visitor records live in a  *)
(* heap and are referred to by their index (a *Visitor pointer).           *)
(***************************************************************************)
EXTENDS Integers, Sequences, FiniteSets, TLC

\* ---------------------------------------------------------------- bounds
MaxTime == 3      \* the clock runs from 0 to MaxTime
MaxCalls == 3     \* number of isAllowed calls issued in one behaviour
TicksPerSecond == 2   \* resolution of the clock: ticks in one second
MaxNotes == 2     \* number of rows the notes table can receive
MaxHeaderLen == 3 \* longest X-Forwarded-For header value, in characters

Workers == {"w1", "w2"}     \* request goroutines
IPs == {"a", "b"}           \* identity keys
Rates == {1, 2}             \* values of the rate parameter
AnyRates == {-1, 0, 1}      \* values of rate, the non-positive ones included
Windows == {1, 2}           \* values of the window parameter
Cleanups == {1, 2}          \* values of the cleanup parameter

Nil == 0                    \* the nil *Visitor / absent map entry
NoOne == "none"             \* an unheld mutex
Reaper == "reaper"          \* the cleanupVisitors goroutine

Users == {1, 11}            \* user ids carried by valid tokens
NoteIDs == 1..MaxNotes      \* values of the auto-increment column notes.id
Contents == {"x", "y"}      \* title/content/category of a request body

\* The characters of a header value: digits of an address and the comma.
HeaderChars == {"1", "2", ","}

\* The strings of at most n characters.
RECURSIVE Strings(_)
Strings(n) ==
    IF n = 0 THEN {<<>>}
    ELSE Strings(n - 1)
            \cup {Append(s, c) : s \in {t \in Strings(n - 1) : Len(t) = n - 1},
                                 c \in HeaderChars}

\* r.Use(...) of main: the handlers every route runs first.
GlobalMiddleware == <<"Logger", "CORS", "ErrorHandler", "Recovery">>

\* The routes of the group /api/v1/auth and their handlers.
AuthRoutes == {"/api/v1/auth/register", "/api/v1/auth/login"}
AuthHandler(route) ==
    IF route = "/api/v1/auth/register" THEN "Register" ELSE "Login"

\* The handlers chain gin runs for an auth route: the global middleware,
\* the middleware of the groups /api/v1 and /auth (none), the handler.
HandlersChain(route) == GlobalMiddleware \o <<AuthHandler(route)>>

VARIABLES
    rate, window, cleanup,  \* RateLimiter configuration (immutable)
    keys,                   \* the identities requests arrive from (immutable)
    budget,                 \* how many requests arrive before they stop (immutable)
    now,                    \* the clock read by time.Now()
    tickPending,            \* a tick is buffered in ticker.C
    visitors,               \* rl.visitors: identity -> *Visitor (Nil = absent)
    heap,                   \* the Visitor records ever allocated
    rlWriter, rlReaders,    \* rl.mutex: write holder and read holders
    pc, ip, visitor, exists,\* per worker: position and locals of isAllowed
    callNow, res,           \* per worker: local now and the returned triple
    rpc, rcutoff, rtodo,    \* reaper: position, cutoff, identities left to visit
    rip, rlastSeen,         \* reaper: loop variables ip and lastSeen
    ncalls,                 \* isAllowed calls issued so far
    \* history variables (observations only, never read by the program)
    admitted,               \* identity -> timestamps of its admitted checks
    finished,               \* identity -> number of completed checks
    pre,                    \* per worker: the record's requests before the check
    overwritten,            \* records replaced in the registry by another insert
    blockedUntil,           \* identity -> instant announced by a denial that no
                            \*   admission or reaping has followed (0 = none)
    sawBlock,               \* per worker: blockedUntil of its identity at check time
    untilAt,                \* per worker: the clock read by time.Until
    superseded,             \* per worker: its identity was admitted or reaped
                            \*   after its denied check, before its time.Until
    checks,                 \* per worker: isAllowed bodies run for its request
    out,                    \* per worker: the response of its latest request
    lastCheck,              \* identity -> time of its latest check (-1 = none)
    gapFree,                \* identity -> no two consecutive checks of it were
                            \*   more than cleanup apart
    \* the notes API
    db,                     \* table notes: id -> row (NoNote = no such row)
    nextID,                 \* the next auto-increment id
    redis,                  \* the cache: key -> JSON value and who stored it
    req,                    \* per worker: its notes request and handler position
    reply,                  \* per worker: the response of its latest notes request
    \* identity derivation
    header,                 \* the request getClientIP looks at: X-Forwarded-For,
                            \*   X-Real-IP and the peer address
    clientIP                \* what getClientIP returned for it

cfg == <<rate, window, cleanup, keys, budget>>
clk == <<now, tickPending>>
reg == <<visitors, heap, rlWriter, rlReaders>>
wrk == <<pc, ip, visitor, exists, callNow, res>>
rpr == <<rpc, rcutoff, rtodo, rip, rlastSeen>>
obs == <<admitted, finished, pre, overwritten, blockedUntil, sawBlock, untilAt,
         superseded, lastCheck, gapFree>>
web == <<checks, out>>
app == <<db, nextID, redis, req, reply>>
hdr == <<header, clientIP>>
vars == <<cfg, clk, reg, wrk, rpr, ncalls, obs, web, app, hdr>>

NoResult == [allowed |-> FALSE, remaining |-> 0, resetIn |-> 0]

\* No note: a nil *models.Note, an absent row.
NoNote == [id |-> 0, user_id |-> 0, content |-> "none"]

\* A worker that serves no notes request.
NoRequest ==
    [op |-> "none", user |-> 0, id |-> 0, content |-> "none", step |-> "idle",
     note |-> NoNote, notes |-> {}, fresh |-> FALSE]

\* No notes response yet.
NoReply ==
    [op |-> "none", user |-> 0, id |-> 0, status |-> 0, note |-> NoNote,
     notes |-> {}, total |-> 0, foreign |-> FALSE, cachedBy |-> 0]

\* No response yet.
NoResponse ==
    [via |-> "none", checks |-> 0, result |-> NoResult, headers |-> <<>>,
     status |-> 0, body |-> <<>>, next |-> "none"]

\* No request looked at yet, and no identity derived yet.
NoHeader == [xff |-> <<>>, xri |-> <<>>, peer |-> <<>>]
Unset == <<"unset">>

\* ------------------------------------------------------- pure operators

\* The position of the first comma of s, counted from 0 (0 when s has none):
\* commaIdx after the loop of getClientIP.
CommaIdx(s) ==
    IF \E k \in DOMAIN s : s[k] = ","
    THEN (CHOOSE k \in DOMAIN s :
              s[k] = "," /\ \A j \in 1..(k - 1) : s[j] # ",") - 1
    ELSE 0

\* getClientIP: xff[:commaIdx] when commaIdx > 0, else the whole
\* X-Forwarded-For value when it is not empty; else X-Real-IP when it is not
\* empty; else c.ClientIP().
GetClientIP(h) ==
    IF h.xff # <<>>
    THEN IF CommaIdx(h.xff) > 0
         THEN SubSeq(h.xff, 1, CommaIdx(h.xff))
         ELSE h.xff
    ELSE IF h.xri # <<>> THEN h.xri ELSE h.peer

\* A prune that drops the oldest timestamp only.
PruneOldestOnly(reqs, cutoff) ==
    IF reqs # <<>> /\ reqs[1] <= cutoff THEN Tail(reqs) ELSE reqs

\* A prune that keeps a timestamp exactly one window old (!reqTime.Before).
PruneKeepsCutoff(reqs, cutoff) == SelectSeq(reqs, LAMBDA t : t >= cutoff)

\* Remove requests outside the window: keep reqTime.After(cutoff).
Prune(reqs, cutoff) == SelectSeq(reqs, LAMBDA t : t > cutoff)

\* A comparison that lets one request too many in: len > rl.rate.
LimitExceededStrict(reqs) == Len(reqs) > rate

\* A comparison that is one off: len(visitor.requests) >= rl.rate - 1.
LimitExceededOffByOne(reqs) == Len(reqs) >= rate - 1

\* len(visitor.requests) >= rl.rate
LimitExceeded(reqs) == Len(reqs) >= rate

\* time.Until(oldestRequest.Add(rl.window)), with the clock reading t
ResetDuration(reqs, t) == (reqs[1] + window) - t

\* return false, rl.rate - len(visitor.requests), resetDuration
Denied(reqs, d) ==
    [allowed |-> FALSE, remaining |-> rate - Len(reqs), resetIn |-> d]

\* The new timestamp put in front of the sequence.
AddRequestInFront(reqs, t) == <<t>> \o reqs

\* visitor.requests = append(visitor.requests, now)
AddRequest(reqs, t) == Append(reqs, t)

\* The remaining quota computed before the append is counted.
AdmittedBeforeAppend(reqs) ==
    [allowed |-> TRUE, remaining |-> (rate - Len(reqs)) + 1, resetIn |-> 0]

\* return true, rl.rate - len(visitor.requests), 0
Admitted(reqs) ==
    [allowed |-> TRUE, remaining |-> rate - Len(reqs), resetIn |-> 0]

\* A check that appends its timestamp before comparing with the rate.
SeenCountsAttempt(rec, t) ==
    [rec EXCEPT !.lastSeen = t,
                !.requests = Append(Prune(@, t - window), t)]

\* visitor.lastSeen = now; visitor.requests = the requests after cutoff
Seen(rec, t) ==
    [rec EXCEPT !.lastSeen = t, !.requests = Prune(@, t - window)]

\* The admit branch's append, also noted in the record's history.
Record(rec, t) ==
    [rec EXCEPT !.requests = AddRequest(@, t), !.hist = Append(@, t)]

\* The comparison turned around: lastSeen.After(cutoff).
IsStaleInverted(lastSeen, cutoff) == lastSeen > cutoff

\* lastSeen.Before(cutoff)
IsStale(lastSeen, cutoff) == lastSeen < cutoff

\* The characters of the decimal digits.
DigitChar == <<"0", "1", "2", "3", "4", "5", "6", "7", "8", "9">>

\* The decimal digits of a natural number, most significant first.
RECURSIVE Digits(_)
Digits(n) ==
    IF n < 10 THEN <<DigitChar[n + 1]>>
    ELSE Digits(n \div 10) \o <<DigitChar[(n % 10) + 1]>>

\* strconv.Itoa / strconv.FormatInt(_, 10): sign and decimal digits.
Itoa(n) == IF n < 0 THEN <<"-">> \o Digits(-n) ELSE Digits(n)

\* int(d.Seconds()): whole seconds of a duration, truncated toward zero.
Seconds(d) ==
    IF d >= 0 THEN d \div TicksPerSecond ELSE -((-d) \div TicksPerSecond)

\* Time.Unix(): whole seconds since the epoch (the clock's 0).
Unix(t) == t \div TicksPerSecond

\* d.Round(time.Second): the nearest whole second, halfway values away from
\* zero, as a duration in ticks.
RoundSecond(d) ==
    LET up(x) == ((2 * x + TicksPerSecond) \div (2 * TicksPerSecond))
                     * TicksPerSecond
    IN  IF d >= 0 THEN up(d) ELSE -up(-d)

\* c.Header(...) of RateLimitMiddleware, the clock reading t.
RateLimitHeaders(r, t) ==
    LET names == {"X-RateLimit-Limit", "X-RateLimit-Remaining"}
                     \cup (IF r.resetIn > 0
                           THEN {"X-RateLimit-Reset", "Retry-After"}
                           ELSE {})
    IN  [h \in names |->
            CASE h = "X-RateLimit-Limit" -> Itoa(rate)
              [] h = "X-RateLimit-Remaining" -> Itoa(r.remaining)
              [] h = "X-RateLimit-Reset" -> Itoa(Unix(t + r.resetIn))
              [] h = "Retry-After" -> Itoa(Seconds(r.resetIn))]

\* gin.H{"success": false, "message": ..., "retry_after": ...}; the message
\* is kept as the duration it prints.
TooManyRequests(r) ==
    [success |-> FALSE, message |-> RoundSecond(r.resetIn),
     retry_after |-> Seconds(r.resetIn)]

\* A filter that answers 429 and still calls the next handler.
RateLimitNoAbort(r, t, n) ==
    [via |-> "RateLimitMiddleware", checks |-> n, result |-> r,
     headers |-> RateLimitHeaders(r, t),
     status |-> IF r.allowed THEN 0 ELSE 429,
     body |-> IF r.allowed THEN <<>> ELSE TooManyRequests(r),
     next |-> "next"]

\* RateLimitMiddleware after isAllowed returned r (n calls of it made): the
\* headers, then 429 with the JSON body and c.Abort(), or c.Next().
RateLimitResponse(r, t, n) ==
    [via |-> "RateLimitMiddleware", checks |-> n, result |-> r,
     headers |-> RateLimitHeaders(r, t),
     status |-> IF r.allowed THEN 0 ELSE 429,
     body |-> IF r.allowed THEN <<>> ELSE TooManyRequests(r),
     next |-> IF r.allowed THEN "next" ELSE "none"]

\* ErrorHandler: recover(), 500 with a JSON body, c.Abort().
Recovered(n) ==
    [via |-> "ErrorHandler", checks |-> n, result |-> NoResult,
     headers |-> <<>>, status |-> 500,
     body |-> [success |-> FALSE, message |-> 0, retry_after |-> 0],
     next |-> "none"]

\* noteRepository.GetByID: SELECT ... WHERE n.id = ? AND n.user_id = ?
\* (nil, nil when no row matches).
GetByID(rows, id, userID) ==
    IF id \in NoteIDs /\ rows[id] # NoNote /\ rows[id].user_id = userID
    THEN rows[id]
    ELSE NoNote

\* noteRepository.GetAll: the rows with n.user_id = ? (their order left out).
GetAll(rows, userID) ==
    {rows[i] : i \in {j \in NoteIDs : rows[j] # NoNote
                                        /\ rows[j].user_id = userID}}

\* A detail key that leaves the user out: "notes:detail:note:%d".
GenerateNoteDetailKeyNoUser(noteID, userID) ==
    <<"notes:detail:", "note:">> \o Itoa(noteID)

\* fmt.Sprintf("notes:detail:note:%d:user:%d", noteID, userID)
GenerateNoteDetailKey(noteID, userID) ==
    <<"notes:detail:", "note:">> \o Itoa(noteID) \o <<":user:">> \o Itoa(userID)

\* fmt.Sprintf("notes:list:user:%d:page:%d:limit:%d", userID, page, limit),
\* no category.
GenerateNotesListKey(userID, page, limit) ==
    <<"notes:list:user:">> \o Itoa(userID) \o <<":", "page:">> \o Itoa(page)
        \o <<":limit:">> \o Itoa(limit)

\* The three patterns of InvalidateUserNotesCache.
UserPatterns(userID) ==
    { <<"notes:list:user:">> \o Itoa(userID) \o <<":", "*">>,
      <<"notes:detail:", "*", ":user:">> \o Itoa(userID),
      <<"notes:categories:user:">> \o Itoa(userID) }

\* invalidateCache(c, userID, noteID): the detail key of the note (noteID > 0)
\* and the patterns of the user.
InvalidationPatterns(noteID, userID) ==
    IF noteID > 0
    THEN {GenerateNoteDetailKey(noteID, userID)} \cup UserPatterns(userID)
    ELSE UserPatterns(userID)

\* Redis KEYS: glob matching, * standing for any run of characters.
RECURSIVE Match(_, _)
Match(pattern, key) ==
    IF pattern = <<>> THEN key = <<>>
    ELSE IF pattern[1] = "*"
         THEN \E n \in 0..Len(key) :
                  Match(Tail(pattern), SubSeq(key, n + 1, Len(key)))
         ELSE /\ key # <<>>
              /\ key[1] = pattern[1]
              /\ Match(Tail(pattern), Tail(key))

\* DeletePattern / Delete for each of the patterns: the cache without the
\* keys that match one of them.
DeletePatterns(store, patterns) ==
    LET gone == {k \in DOMAIN store : \E p \in patterns : Match(p, k)}
    IN  [k \in DOMAIN store \ gone |-> store[k]]

\* CacheService.Set(key, value) by a request of userID.
CacheSet(store, key, value, userID) ==
    [k \in DOMAIN store \cup {key} |->
        IF k = key THEN [value |-> value, by |-> userID] ELSE store[k]]

\* &Visitor{requests: make([]time.Time, 0), lastSeen: time.Now()}
NewVisitor(t) ==
    [requests |-> <<>>, lastSeen |-> t, mutex |-> NoOne, hist |-> <<>>]

\* ----------------------------------------------------------------- Init

\* NewRateLimiter: an empty registry, the configuration, the reaper started.
Fresh ==
    /\ now = 0 /\ tickPending = FALSE
    /\ visitors = [i \in IPs |-> Nil]
    /\ heap = <<>>
    /\ rlWriter = NoOne /\ rlReaders = {}
    /\ pc = [w \in Workers |-> "idle"]
    /\ ip = [w \in Workers |-> "a"]
    /\ visitor = [w \in Workers |-> Nil]
    /\ exists = [w \in Workers |-> FALSE]
    /\ callNow = [w \in Workers |-> 0]
    /\ res = [w \in Workers |-> NoResult]
    /\ rpc = "wait" /\ rcutoff = 0 /\ rtodo = {} /\ rip = "a" /\ rlastSeen = 0
    /\ ncalls = 0
    /\ admitted = [i \in IPs |-> <<>>]
    /\ finished = [i \in IPs |-> 0]
    /\ pre = [w \in Workers |-> <<>>]
    /\ overwritten = {}
    /\ blockedUntil = [i \in IPs |-> 0]
    /\ sawBlock = [w \in Workers |-> 0]
    /\ untilAt = [w \in Workers |-> 0]
    /\ superseded = [w \in Workers |-> FALSE]
    /\ checks = [w \in Workers |-> 0]
    /\ out = [w \in Workers |-> NoResponse]
    /\ lastCheck = [i \in IPs |-> -1]
    /\ gapFree = [i \in IPs |-> TRUE]
    /\ db = [i \in NoteIDs |-> NoNote]
    /\ nextID = 1
    /\ redis = <<>>
    /\ req = [w \in Workers |-> NoRequest]
    /\ reply = [w \in Workers |-> NoReply]
    /\ header = NoHeader
    /\ clientIP = Unset

\* Every configuration, requests arriving from one identity.
Init ==
    /\ rate \in Rates /\ window \in Windows /\ cleanup \in Cleanups
    /\ keys = {"a"}
    /\ budget = MaxCalls
    /\ Fresh

\* A limiter with the shortest window and one request fewer, for liveness
\* properties.
InitLive ==
    /\ rate \in Rates /\ window = 1 /\ cleanup \in Cleanups
    /\ keys = {"a"}
    /\ budget = MaxCalls - 1
    /\ Fresh

\* NewRateLimiter stores whatever rate it is given: limiters with a rate
\* that is not positive as well, on the shortest window.
InitAny ==
    /\ rate \in AnyRates /\ window = 1 /\ cleanup \in Cleanups
    /\ keys = {"a"}
    /\ budget = MaxCalls - 1
    /\ Fresh

\* The limiter behind the HTTP filter: the longest window, one request
\* fewer.
InitHttp ==
    /\ rate \in Rates /\ window = 2 /\ cleanup \in Cleanups
    /\ keys = {"a"}
    /\ budget = MaxCalls - 1
    /\ Fresh

\* One more request on a rate-1 limiter with the longest window: enough for
\* two identities' worth of admissions and denials.
InitDeep ==
    /\ rate = 1 /\ window = 2 /\ cleanup = 2
    /\ keys = {"a"}
    /\ budget = MaxCalls + 1
    /\ Fresh

\* The server with an empty notes table and an empty cache; the limiter,
\* which no notes route uses, in one configuration.
InitNotes ==
    /\ rate = 1 /\ window = 1 /\ cleanup = 1
    /\ keys = {"a"}
    /\ budget = MaxCalls
    /\ Fresh

\* Requests arriving from two identities, on one configuration.
InitTwo ==
    /\ rate = 1 /\ window = 2 /\ cleanup = 1
    /\ keys = IPs
    /\ budget = MaxCalls
    /\ Fresh

\* The server started on a table that holds a note of user 1.
InitStored ==
    /\ rate = 1 /\ window = 1 /\ cleanup = 1
    /\ keys = {"a"}
    /\ budget = MaxCalls
    /\ now = 0 /\ tickPending = FALSE
    /\ visitors = [i \in IPs |-> Nil]
    /\ heap = <<>>
    /\ rlWriter = NoOne /\ rlReaders = {}
    /\ pc = [w \in Workers |-> "idle"]
    /\ ip = [w \in Workers |-> "a"]
    /\ visitor = [w \in Workers |-> Nil]
    /\ exists = [w \in Workers |-> FALSE]
    /\ callNow = [w \in Workers |-> 0]
    /\ res = [w \in Workers |-> NoResult]
    /\ rpc = "wait" /\ rcutoff = 0 /\ rtodo = {} /\ rip = "a" /\ rlastSeen = 0
    /\ ncalls = 0
    /\ admitted = [i \in IPs |-> <<>>]
    /\ finished = [i \in IPs |-> 0]
    /\ pre = [w \in Workers |-> <<>>]
    /\ overwritten = {}
    /\ blockedUntil = [i \in IPs |-> 0]
    /\ sawBlock = [w \in Workers |-> 0]
    /\ untilAt = [w \in Workers |-> 0]
    /\ superseded = [w \in Workers |-> FALSE]
    /\ checks = [w \in Workers |-> 0]
    /\ out = [w \in Workers |-> NoResponse]
    /\ lastCheck = [i \in IPs |-> -1]
    /\ gapFree = [i \in IPs |-> TRUE]
    /\ db = [i \in NoteIDs |->
                IF i = 1 THEN [id |-> 1, user_id |-> 1, content |-> "x"]
                ELSE NoNote]
    /\ nextID = 2
    /\ redis = <<>>
    /\ req = [w \in Workers |-> NoRequest]
    /\ reply = [w \in Workers |-> NoReply]
    /\ header = NoHeader
    /\ clientIP = Unset

\* ------------------------------------------------------------ the clock

\* Time passes; the ticker created by time.NewTicker(rl.cleanup) buffers one
\* tick every cleanup units (a tick that finds the buffer full is dropped).
Tick ==
    /\ now < MaxTime
    /\ now' = now + 1
    /\ tickPending' = (tickPending \/ ((now + 1) % cleanup = 0))
    /\ UNCHANGED <<cfg, hdr, app, reg, wrk, rpr, ncalls, obs, web>>

\* ------------------------------------------------------------ isAllowed

\* A request arrives: RateLimitMiddleware calls isAllowed(ip).
Call(w) ==
    /\ pc[w] = "idle"
    /\ ncalls < budget
    /\ \E i \in keys : ip' = [ip EXCEPT ![w] = i]
    /\ pc' = [pc EXCEPT ![w] = "rlock"]
    /\ ncalls' = ncalls + 1
    /\ UNCHANGED <<cfg, hdr, app, clk, reg, visitor, exists, callNow, res, rpr, obs, web>>

\* rl.mutex.RLock()
RLockRegistry(w) ==
    /\ pc[w] = "rlock"
    /\ rlWriter = NoOne
    /\ rlReaders' = rlReaders \cup {w}
    /\ pc' = [pc EXCEPT ![w] = "lookup"]
    /\ UNCHANGED <<cfg, hdr, app, clk, visitors, heap, rlWriter, ip, visitor, exists,
                   callNow, res, rpr, ncalls, obs, web>>

\* A lookup under one key for every identity: rl.visitors["a"].
LookupSharedKey(w) ==
    /\ pc[w] = "lookup"
    /\ visitor' = [visitor EXCEPT ![w] = visitors["a"]]
    /\ exists' = [exists EXCEPT ![w] = (visitors["a"] # Nil)]
    /\ rlReaders' = rlReaders \ {w}
    /\ pc' = [pc EXCEPT ![w] = IF visitors["a"] # Nil THEN "vlock" ELSE "create"]
    /\ UNCHANGED <<cfg, hdr, app, clk, visitors, heap, rlWriter, ip, callNow, res, rpr,
                   ncalls, obs, web>>

\* visitor, exists := rl.visitors[ip]; rl.mutex.RUnlock()
Lookup(w) ==
    /\ pc[w] = "lookup"
    /\ visitor' = [visitor EXCEPT ![w] = visitors[ip[w]]]
    /\ exists' = [exists EXCEPT ![w] = (visitors[ip[w]] # Nil)]
    /\ rlReaders' = rlReaders \ {w}
    /\ pc' = [pc EXCEPT ![w] = IF visitors[ip[w]] # Nil THEN "vlock" ELSE "create"]
    /\ UNCHANGED <<cfg, hdr, app, clk, visitors, heap, rlWriter, ip, callNow, res, rpr,
                   ncalls, obs, web>>

\* if !exists { visitor = &Visitor{..., lastSeen: time.Now()} ...
Create(w) ==
    /\ pc[w] = "create"
    /\ heap' = Append(heap, NewVisitor(now))
    /\ visitor' = [visitor EXCEPT ![w] = Len(heap) + 1]
    /\ pc' = [pc EXCEPT ![w] = "wlock"]
    /\ UNCHANGED <<cfg, hdr, app, clk, visitors, rlWriter, rlReaders, ip, exists, callNow,
                   res, rpr, ncalls, obs, web>>

\* rl.mutex.Lock()
LockRegistry(w) ==
    /\ pc[w] = "wlock"
    /\ rlWriter = NoOne /\ rlReaders = {}
    /\ rlWriter' = w
    /\ pc' = [pc EXCEPT ![w] = "insert"]
    /\ UNCHANGED <<cfg, hdr, app, clk, visitors, heap, rlReaders, ip, visitor, exists,
                   callNow, res, rpr, ncalls, obs, web>>

\* rl.visitors[ip] = visitor; rl.mutex.Unlock()
Insert(w) ==
    /\ pc[w] = "insert"
    /\ visitors' = [visitors EXCEPT ![ip[w]] = visitor[w]]
    /\ overwritten' = IF visitors[ip[w]] # Nil
                      THEN overwritten \cup {visitors[ip[w]]}
                      ELSE overwritten
    /\ rlWriter' = NoOne
    /\ pc' = [pc EXCEPT ![w] = "vlock"]
    /\ UNCHANGED <<cfg, hdr, app, clk, heap, rlReaders, ip, visitor, exists, callNow, res,
                   rpr, ncalls, admitted, finished, pre, blockedUntil, sawBlock,
                   untilAt, superseded, lastCheck, gapFree, web>>

\* A lock taken without waiting for its holder to release it.
LockVisitorNoWait(w) ==
    /\ pc[w] = "vlock"
    /\ heap' = [heap EXCEPT ![visitor[w]].mutex = w]
    /\ pc' = [pc EXCEPT ![w] = "check"]
    /\ UNCHANGED <<cfg, hdr, app, clk, visitors, rlWriter, rlReaders, ip, visitor, exists,
                   callNow, res, rpr, ncalls, obs, web>>

\* visitor.mutex.Lock()
LockVisitor(w) ==
    /\ pc[w] = "vlock"
    /\ heap[visitor[w]].mutex = NoOne
    /\ heap' = [heap EXCEPT ![visitor[w]].mutex = w]
    /\ pc' = [pc EXCEPT ![w] = "check"]
    /\ UNCHANGED <<cfg, hdr, app, clk, visitors, rlWriter, rlReaders, ip, visitor, exists,
                   callNow, res, rpr, ncalls, obs, web>>

\* now := time.Now(); visitor.lastSeen = now; prune; compare with the rate;
\* on the admit branch append now and return (true, remaining, 0).  On the
\* deny branch oldestRequest := visitor.requests[0] panics (index out of
\* range) when the sequence is empty.
Check(w) ==
    LET v == visitor[w]
        seen == Seen(heap[v], now)
    IN
    /\ pc[w] = "check"
    /\ callNow' = [callNow EXCEPT ![w] = now]
    /\ pre' = [pre EXCEPT ![w] = heap[v].requests]
    /\ sawBlock' = [sawBlock EXCEPT ![w] = blockedUntil[ip[w]]]
    /\ lastCheck' = [lastCheck EXCEPT ![ip[w]] = now]
    /\ checks' = [checks EXCEPT ![w] = @ + 1]
    /\ gapFree' = [gapFree EXCEPT ![ip[w]] =
                      @ /\ (lastCheck[ip[w]] < 0
                               \/ now - lastCheck[ip[w]] <= cleanup)]
    /\ IF LimitExceeded(seen.requests)
       THEN /\ heap' = [heap EXCEPT ![v] = seen]
            /\ pc' = [pc EXCEPT ![w] =
                         IF seen.requests = <<>> THEN "panic" ELSE "until"]
            /\ UNCHANGED <<res, admitted, blockedUntil, superseded>>
       ELSE /\ heap' = [heap EXCEPT ![v] = Record(seen, now)]
            /\ res' = [res EXCEPT ![w] = Admitted(Record(seen, now).requests)]
            /\ admitted' = [admitted EXCEPT ![ip[w]] = Append(@, now)]
            /\ blockedUntil' = [blockedUntil EXCEPT ![ip[w]] = 0]
            /\ superseded' = [u \in Workers |->
                                 superseded[u]
                                     \/ (pc[u] = "until" /\ ip[u] = ip[w])]
            /\ pc' = [pc EXCEPT ![w] = "ret"]
    /\ UNCHANGED <<cfg, hdr, app, clk, visitors, rlWriter, rlReaders, ip, visitor, exists,
                   rpr, ncalls, finished, overwritten, untilAt, out>>

\* The deny branch: resetDuration := time.Until(resetTime) reads the clock
\* again; return (false, remaining, resetDuration).
Until(w) ==
    LET v == visitor[w]
        d == ResetDuration(heap[v].requests, now)
    IN
    /\ pc[w] = "until"
    /\ res' = [res EXCEPT ![w] = Denied(heap[v].requests, d)]
    /\ blockedUntil' = IF superseded[w]
                       THEN blockedUntil
                       ELSE [blockedUntil EXCEPT ![ip[w]] = now + d]
    /\ superseded' = [superseded EXCEPT ![w] = FALSE]
    /\ untilAt' = [untilAt EXCEPT ![w] = now]
    /\ pc' = [pc EXCEPT ![w] = "ret"]
    /\ UNCHANGED <<cfg, hdr, app, clk, reg, ip, visitor, exists, callNow, rpr, ncalls,
                   admitted, finished, pre, overwritten, sawBlock, lastCheck,
                   gapFree, web>>

\* A return that leaves the record's mutex locked (no deferred Unlock).
ReturnKeepsLock(w) ==
    /\ pc[w] \in {"ret", "panic"}
    /\ finished' = [finished EXCEPT ![ip[w]] = @ + 1]
    /\ pc' = [pc EXCEPT ![w] = "idle"]
    /\ ip' = [ip EXCEPT ![w] = "a"]
    /\ visitor' = [visitor EXCEPT ![w] = Nil]
    /\ exists' = [exists EXCEPT ![w] = FALSE]
    /\ callNow' = [callNow EXCEPT ![w] = 0]
    /\ res' = [res EXCEPT ![w] = NoResult]
    /\ pre' = [pre EXCEPT ![w] = <<>>]
    /\ sawBlock' = [sawBlock EXCEPT ![w] = 0]
    /\ untilAt' = [untilAt EXCEPT ![w] = 0]
    /\ checks' = [checks EXCEPT ![w] = 0]
    /\ UNCHANGED <<cfg, hdr, app, clk, reg, rpr, ncalls,
                   admitted, overwritten, blockedUntil, superseded, lastCheck,
                   gapFree, out>>

\* defer visitor.mutex.Unlock(); the call returns res[w], or its panic
\* unwinds to the recover of ErrorHandler.
Return(w) ==
    /\ pc[w] \in {"ret", "panic"}
    /\ heap' = [heap EXCEPT ![visitor[w]].mutex = NoOne]
    /\ finished' = [finished EXCEPT ![ip[w]] = @ + 1]
    /\ pc' = [pc EXCEPT ![w] = "idle"]
    /\ ip' = [ip EXCEPT ![w] = "a"]
    /\ visitor' = [visitor EXCEPT ![w] = Nil]
    /\ exists' = [exists EXCEPT ![w] = FALSE]
    /\ callNow' = [callNow EXCEPT ![w] = 0]
    /\ res' = [res EXCEPT ![w] = NoResult]
    /\ pre' = [pre EXCEPT ![w] = <<>>]
    /\ sawBlock' = [sawBlock EXCEPT ![w] = 0]
    /\ untilAt' = [untilAt EXCEPT ![w] = 0]
    /\ checks' = [checks EXCEPT ![w] = 0]
    /\ UNCHANGED <<cfg, hdr, app, clk, visitors, rlWriter, rlReaders, rpr, ncalls,
                   admitted, overwritten, blockedUntil, superseded, lastCheck,
                   gapFree, out>>

\* ------------------------------------------------- the HTTP layer

\* defer visitor.mutex.Unlock(); isAllowed returns to RateLimitMiddleware, or
\* its panic unwinds to ErrorHandler.
ReturnToFilter(w) ==
    /\ pc[w] \in {"ret", "panic"}
    /\ heap' = [heap EXCEPT ![visitor[w]].mutex = NoOne]
    /\ finished' = [finished EXCEPT ![ip[w]] = @ + 1]
    /\ pc' = [pc EXCEPT ![w] = IF pc[w] = "panic" THEN "recover" ELSE "filter"]
    /\ UNCHANGED <<cfg, hdr, app, clk, visitors, rlWriter, rlReaders, ip, visitor, exists,
                   callNow, res, rpr, ncalls, admitted, pre, overwritten,
                   blockedUntil, sawBlock, untilAt, superseded, lastCheck,
                   gapFree, web>>

\* The rest of RateLimitMiddleware: headers (time.Now() for the reset
\* header), then the 429 answer or c.Next(); after a panic, the answer of
\* ErrorHandler.
Respond(w) ==
    /\ pc[w] \in {"filter", "recover"}
    /\ out' = [out EXCEPT ![w] =
                  IF pc[w] = "recover"
                  THEN Recovered(checks[w])
                  ELSE RateLimitResponse(res[w], now, checks[w])]
    /\ checks' = [checks EXCEPT ![w] = 0]
    /\ pc' = [pc EXCEPT ![w] = "idle"]
    /\ ip' = [ip EXCEPT ![w] = "a"]
    /\ visitor' = [visitor EXCEPT ![w] = Nil]
    /\ exists' = [exists EXCEPT ![w] = FALSE]
    /\ callNow' = [callNow EXCEPT ![w] = 0]
    /\ res' = [res EXCEPT ![w] = NoResult]
    /\ pre' = [pre EXCEPT ![w] = <<>>]
    /\ sawBlock' = [sawBlock EXCEPT ![w] = 0]
    /\ untilAt' = [untilAt EXCEPT ![w] = 0]
    /\ UNCHANGED <<cfg, hdr, app, clk, reg, rpr, ncalls, admitted, finished, overwritten,
                   blockedUntil, superseded, lastCheck, gapFree>>

\* A request to POST /api/v1/auth/register or /login as main routes it: gin
\* runs the handlers chain of the route; AuthRateLimit is not in it, so the
\* handler is dispatched without any isAllowed call.
ServeAuth(w) ==
    /\ pc[w] = "idle"
    /\ ncalls < budget
    /\ \E route \in AuthRoutes :
         LET chain == HandlersChain(route)
         IN  /\ \A k \in DOMAIN chain : chain[k] # "AuthRateLimit"
             /\ out' = [out EXCEPT ![w] =
                           [NoResponse EXCEPT !.via = route,
                                              !.next = chain[Len(chain)]]]
    /\ ncalls' = ncalls + 1
    /\ UNCHANGED <<cfg, hdr, app, clk, reg, wrk, rpr, obs, checks>>

\* -------------------------------------------------------- the notes API

\* A write of note id has changed the table and has not finished its cache
\* invalidation yet.
WriteUnderWay(id) ==
    \E u \in Workers : req[u].step = "invalidate" /\ req[u].id = id

\* The requests rq after a write of note id: the GetNote requests for id
\* that are under way did not start after it (observation only).
Overtaken(rq, id) ==
    [u \in Workers |->
        IF rq[u].op = "GetNote" /\ rq[u].id = id
        THEN [rq[u] EXCEPT !.fresh = FALSE]
        ELSE rq[u]]

\* A request with a valid token of some user passes AuthMiddleware and
\* reaches one of the notes handlers.  (fresh notes, for a GetNote, that every
\* write of its note so far has completed.)
NoteRequest(w) ==
    /\ req[w].step = "idle"
    /\ pc[w] = "idle"
    /\ ncalls < budget
    /\ \E u \in Users :
         \/ \E c \in Contents :
               req' = [req EXCEPT ![w] =
                          [NoRequest EXCEPT !.op = "CreateNote", !.user = u,
                                            !.content = c, !.step = "exec"]]
         \/ \E i \in NoteIDs :
               req' = [req EXCEPT ![w] =
                          [NoRequest EXCEPT !.op = "GetNote", !.user = u,
                                            !.id = i, !.step = "cacheget",
                                            !.fresh = ~WriteUnderWay(i)]]
         \/ req' = [req EXCEPT ![w] =
                       [NoRequest EXCEPT !.op = "GetNotes", !.user = u,
                                         !.step = "cacheget"]]
         \/ \E i \in NoteIDs, c \in Contents :
               req' = [req EXCEPT ![w] =
                          [NoRequest EXCEPT !.op = "UpdateNote", !.user = u,
                                            !.id = i, !.content = c,
                                            !.step = "exec"]]
         \/ \E i \in NoteIDs :
               req' = [req EXCEPT ![w] =
                          [NoRequest EXCEPT !.op = "DeleteNote", !.user = u,
                                            !.id = i, !.step = "exec"]]
    /\ ncalls' = ncalls + 1
    /\ UNCHANGED <<cfg, hdr, clk, reg, wrk, rpr, obs, web, db, nextID, redis, reply>>

\* The response of worker w's request: status, one note or a list of notes;
\* foreign notes whether the note id belonged to another user when the
\* handler looked, cachedBy who stored the cache entry that was served.
Answer(w, status, note, notes, foreign, cachedBy) ==
    /\ reply' = [reply EXCEPT ![w] =
                    [op |-> req[w].op, user |-> req[w].user, id |-> req[w].id,
                     status |-> status, note |-> note, notes |-> notes,
                     total |-> 0, foreign |-> foreign, cachedBy |-> cachedBy]]
    /\ req' = [req EXCEPT ![w] = NoRequest]

\* response.SuccessWithMeta(c, notes, meta) of GetNotes: the list and the
\* total the pagination is calculated from.
AnswerList(w, notes, total, cachedBy) ==
    /\ reply' = [reply EXCEPT ![w] =
                    [op |-> req[w].op, user |-> req[w].user, id |-> req[w].id,
                     status |-> 200, note |-> NoNote, notes |-> notes,
                     total |-> total, foreign |-> FALSE, cachedBy |-> cachedBy]]
    /\ req' = [req EXCEPT ![w] = NoRequest]

\* The note id exists and belongs to somebody else.
Foreign(id, userID) == db[id] # NoNote /\ db[id].user_id # userID

\* CreateNote: noteRepo.Create (INSERT, LastInsertId, GetByID); a failed
\* INSERT (no id left) answers 500.
CreateNote(w) ==
    /\ req[w].op = "CreateNote" /\ req[w].step = "exec"
    /\ IF nextID \in NoteIDs
       THEN LET row == [id |-> nextID, user_id |-> req[w].user,
                        content |-> req[w].content]
                rows == [db EXCEPT ![nextID] = row]
            IN  /\ db' = rows
                /\ nextID' = nextID + 1
                /\ req' = [req EXCEPT ![w].note = GetByID(rows, nextID, req[w].user),
                                      ![w].step = "invalidate"]
                /\ UNCHANGED reply
       ELSE /\ Answer(w, 500, NoNote, {}, FALSE, 0)
            /\ UNCHANGED <<db, nextID>>
    /\ UNCHANGED <<cfg, hdr, clk, reg, wrk, rpr, ncalls, obs, web, redis>>

\* GetNote, cache part: GenerateNoteDetailKey, cacheService.Get; a hit is
\* answered from the cache, a miss or a Redis error goes on to the database.
GetNoteCache(w) ==
    LET key == GenerateNoteDetailKey(req[w].id, req[w].user)
    IN
    /\ req[w].op = "GetNote" /\ req[w].step = "cacheget"
    /\ \/ /\ key \in DOMAIN redis
          /\ Answer(w, 200, redis[key].value, {},
                    Foreign(req[w].id, req[w].user), redis[key].by)
       \/ /\ req' = [req EXCEPT ![w].step = "dbget"]
          /\ UNCHANGED reply
    /\ UNCHANGED <<cfg, hdr, clk, reg, wrk, rpr, ncalls, obs, web, db, nextID, redis>>

\* GetNote, database part: noteRepo.GetByID; nil answers 404.
GetNoteDb(w) ==
    LET note == GetByID(db, req[w].id, req[w].user)
    IN
    /\ req[w].op = "GetNote" /\ req[w].step = "dbget"
    /\ IF note = NoNote
       THEN Answer(w, 404, NoNote, {}, Foreign(req[w].id, req[w].user), 0)
       ELSE /\ req' = [req EXCEPT ![w].note = note, ![w].step = "cacheset"]
            /\ UNCHANGED reply
    /\ UNCHANGED <<cfg, hdr, clk, reg, wrk, rpr, ncalls, obs, web, db, nextID, redis>>

\* GetNote, last part: cacheService.Set (it may fail), response.Success.
GetNoteSet(w) ==
    LET key == GenerateNoteDetailKey(req[w].id, req[w].user)
    IN
    /\ req[w].op = "GetNote" /\ req[w].step = "cacheset"
    /\ \/ redis' = CacheSet(redis, key, req[w].note, req[w].user)
       \/ redis' = redis
    /\ Answer(w, 200, req[w].note, {}, FALSE, 0)
    /\ UNCHANGED <<cfg, hdr, clk, reg, wrk, rpr, ncalls, obs, web, db, nextID>>

\* GetNotes, cache part (page 1, limit 10, no category): on a hit the
\* handler answers with its own notes variable, which is still empty, and
\* with the pagination of cachedData.Total.
GetNotesCache(w) ==
    LET key == GenerateNotesListKey(req[w].user, 1, 10)
    IN
    /\ req[w].op = "GetNotes" /\ req[w].step = "cacheget"
    /\ \/ /\ key \in DOMAIN redis
          /\ AnswerList(w, {}, redis[key].value.total, redis[key].by)
       \/ /\ req' = [req EXCEPT ![w].step = "dbget"]
          /\ UNCHANGED reply
    /\ UNCHANGED <<cfg, hdr, clk, reg, wrk, rpr, ncalls, obs, web, db, nextID, redis>>

\* GetNotes, database part: noteRepo.GetAll.
GetNotesDb(w) ==
    /\ req[w].op = "GetNotes" /\ req[w].step = "dbget"
    /\ req' = [req EXCEPT ![w].notes = GetAll(db, req[w].user),
                          ![w].step = "cacheset"]
    /\ UNCHANGED <<cfg, hdr, clk, reg, wrk, rpr, ncalls, obs, web, db, nextID, redis,
                   reply>>

\* GetNotes, last part: cacheService.Set of CachedNotesData{notes, total} (it
\* may fail), SuccessWithMeta; total is the COUNT(*) of the same filter.
GetNotesSet(w) ==
    LET key == GenerateNotesListKey(req[w].user, 1, 10)
    IN
    /\ req[w].op = "GetNotes" /\ req[w].step = "cacheset"
    /\ \/ redis' = CacheSet(redis, key,
                             [notes |-> req[w].notes,
                              total |-> Cardinality(req[w].notes)],
                             req[w].user)
       \/ redis' = redis
    /\ AnswerList(w, req[w].notes, Cardinality(req[w].notes), 0)
    /\ UNCHANGED <<cfg, hdr, clk, reg, wrk, rpr, ncalls, obs, web, db, nextID>>

\* UpdateNote: noteRepo.Update (UPDATE ... WHERE id = ? AND user_id = ?, then
\* GetByID); no row affected answers 404.  A matching row whose values are
\* already those of the request counts as affected or not, as the driver is
\* configured.
UpdateNote(w) ==
    LET old == GetByID(db, req[w].id, req[w].user)
        rows == [db EXCEPT ![req[w].id].content = req[w].content]
    IN
    /\ req[w].op = "UpdateNote" /\ req[w].step = "exec"
    /\ \/ /\ old # NoNote
          /\ db' = rows
          /\ req' = Overtaken(
                        [req EXCEPT ![w].note = GetByID(rows, req[w].id, req[w].user),
                                    ![w].step = "invalidate"],
                        req[w].id)
          /\ UNCHANGED reply
       \/ /\ old = NoNote \/ old.content = req[w].content
          /\ Answer(w, 404, NoNote, {}, Foreign(req[w].id, req[w].user), 0)
          /\ UNCHANGED db
    /\ UNCHANGED <<cfg, hdr, clk, reg, wrk, rpr, ncalls, obs, web, nextID, redis>>

\* DeleteNote: noteRepo.Delete (DELETE ... WHERE id = ? AND user_id = ?); no
\* row affected answers 404.
DeleteNote(w) ==
    /\ req[w].op = "DeleteNote" /\ req[w].step = "exec"
    /\ IF GetByID(db, req[w].id, req[w].user) # NoNote
       THEN /\ db' = [db EXCEPT ![req[w].id] = NoNote]
            /\ req' = Overtaken([req EXCEPT ![w].step = "invalidate"], req[w].id)
            /\ UNCHANGED reply
       ELSE /\ Answer(w, 404, NoNote, {}, Foreign(req[w].id, req[w].user), 0)
            /\ UNCHANGED db
    /\ UNCHANGED <<cfg, hdr, clk, reg, wrk, rpr, ncalls, obs, web, nextID, redis>>

\* invalidateCache after a create, update or delete (each Redis call may
\* fail and is only logged), then the response.
InvalidateCache(w) ==
    /\ req[w].step = "invalidate"
    /\ \E done \in SUBSET InvalidationPatterns(req[w].id, req[w].user) :
         redis' = DeletePatterns(redis, done)
    /\ Answer(w, IF req[w].op = "CreateNote" THEN 201 ELSE 200, req[w].note,
              {}, FALSE, 0)
    /\ UNCHANGED <<cfg, hdr, clk, reg, wrk, rpr, ncalls, obs, web, db, nextID>>

\* A cache entry reaches the end of its TTL.
Expire ==
    /\ \E k \in DOMAIN redis : redis' = [j \in DOMAIN redis \ {k} |-> redis[j]]
    /\ UNCHANGED <<cfg, hdr, clk, reg, wrk, rpr, ncalls, obs, web, db, nextID, req,
                   reply>>

\* ------------------------------------------------- identity derivation

\* A request reaches RateLimitMiddleware with some X-Forwarded-For value,
\* with or without X-Real-IP, from some peer address.
Arrive ==
    /\ \E f \in Strings(MaxHeaderLen), r \in {<<>>, <<"8">>}, a \in {<<"9">>} :
         header' = [xff |-> f, xri |-> r, peer |-> a]
    /\ clientIP' = Unset
    /\ UNCHANGED <<cfg, clk, reg, wrk, rpr, ncalls, obs, web, app>>

\* ip := getClientIP(c)
Derive ==
    /\ header # NoHeader
    /\ clientIP = Unset
    /\ clientIP' = GetClientIP(header)
    /\ UNCHANGED <<cfg, clk, reg, wrk, rpr, ncalls, obs, web, app, header>>

\* ------------------------------------------------------ cleanupVisitors

\* for range ticker.C: a buffered tick is received.
ReapTick ==
    /\ rpc = "wait"
    /\ tickPending
    /\ tickPending' = FALSE
    /\ rpc' = "lock"
    /\ UNCHANGED <<cfg, hdr, app, now, reg, wrk, rcutoff, rtodo, rip, rlastSeen, ncalls, obs, web>>

\* rl.mutex.Lock(); cutoff := time.Now().Add(-rl.cleanup); start the range
\* over rl.visitors.
ReapLock ==
    /\ rpc = "lock"
    /\ rlWriter = NoOne /\ rlReaders = {}
    /\ rlWriter' = Reaper
    /\ rcutoff' = now - cleanup
    /\ rtodo' = {i \in IPs : visitors[i] # Nil}
    /\ rpc' = "scan"
    /\ UNCHANGED <<cfg, hdr, app, clk, visitors, heap, rlReaders, wrk, rip, rlastSeen,
                   ncalls, obs, web>>

\* Next map entry (in any order): visitor.mutex.RLock();
\* lastSeen := visitor.lastSeen; visitor.mutex.RUnlock()
ReapRead ==
    /\ rpc = "scan"
    /\ \E i \in rtodo :
         /\ heap[visitors[i]].mutex = NoOne
         /\ rip' = i
         /\ rlastSeen' = heap[visitors[i]].lastSeen
    /\ rpc' = "decide"
    /\ UNCHANGED <<cfg, hdr, app, clk, reg, wrk, rcutoff, rtodo, ncalls, obs, web>>

\* if lastSeen.Before(cutoff) { delete(rl.visitors, ip) }
ReapDecide ==
    /\ rpc = "decide"
    /\ visitors' = IF IsStale(rlastSeen, rcutoff)
                   THEN [visitors EXCEPT ![rip] = Nil]
                   ELSE visitors
    /\ blockedUntil' = IF IsStale(rlastSeen, rcutoff)
                       THEN [blockedUntil EXCEPT ![rip] = 0]
                       ELSE blockedUntil
    /\ superseded' = [u \in Workers |->
                         superseded[u]
                             \/ (IsStale(rlastSeen, rcutoff)
                                    /\ pc[u] = "until" /\ ip[u] = rip)]
    /\ rtodo' = rtodo \ {rip}
    /\ rpc' = "scan"
    /\ UNCHANGED <<cfg, hdr, app, clk, heap, rlWriter, rlReaders, wrk, rcutoff, rip,
                   rlastSeen, ncalls, admitted, finished, pre, overwritten,
                   sawBlock, untilAt, lastCheck, gapFree, web>>

\* The range is exhausted: rl.mutex.Unlock() and wait for the next tick.
ReapUnlock ==
    /\ rpc = "scan"
    /\ rtodo = {}
    /\ rlWriter' = NoOne
    /\ rpc' = "wait"
    /\ rip' = "a" /\ rlastSeen' = 0 /\ rcutoff' = 0
    /\ UNCHANGED <<cfg, hdr, app, clk, visitors, heap, rlReaders, wrk, rtodo, ncalls, obs, web>>

\* ----------------------------------------------------------------- Next

WorkerStep(w) ==
    \/ Call(w)
    \/ RLockRegistry(w)
    \/ Lookup(w)
    \/ Create(w)
    \/ LockRegistry(w)
    \/ Insert(w)
    \/ LockVisitor(w)
    \/ Check(w)
    \/ Until(w)
    \/ Return(w)

ReaperStep ==
    \/ ReapTick
    \/ ReapLock
    \/ ReapRead
    \/ ReapDecide
    \/ ReapUnlock

Next ==
    \/ Tick
    \/ \E w \in Workers : WorkerStep(w)
    \/ ReaperStep

Spec == Init /\ [][Next]_vars

\* A started isAllowed call keeps running (every step but the arrival of a
\* new request).
Progress(w) ==
    \/ RLockRegistry(w)
    \/ Lookup(w)
    \/ Create(w)
    \/ LockRegistry(w)
    \/ Insert(w)
    \/ LockVisitor(w)
    \/ Check(w)
    \/ Until(w)
    \/ Return(w)

\* The Go scheduler runs every runnable goroutine, time passes and the ticker
\* keeps firing; requests may stop arriving at any moment.
Fairness ==
    /\ WF_vars(Tick)
    /\ WF_vars(ReaperStep)
    /\ \A w \in Workers : WF_vars(Progress(w))

LiveSpec == InitLive /\ [][Next]_vars /\ Fairness

AnySpec == InitAny /\ [][Next]_vars

DeepSpec == InitDeep /\ [][Next]_vars

TwoSpec == InitTwo /\ [][Next]_vars

\* The notes routes: concurrent requests of the users, the cache ageing.
NoteStep(w) ==
    \/ NoteRequest(w)
    \/ CreateNote(w)
    \/ GetNoteCache(w)
    \/ GetNoteDb(w)
    \/ GetNoteSet(w)
    \/ GetNotesCache(w)
    \/ GetNotesDb(w)
    \/ GetNotesSet(w)
    \/ UpdateNote(w)
    \/ DeleteNote(w)
    \/ InvalidateCache(w)

NotesNext ==
    \/ \E w \in Workers : NoteStep(w)
    \/ Expire

NotesSpec == InitNotes /\ [][NotesNext]_vars

StoredSpec == InitStored /\ [][NotesNext]_vars

\* The server: requests pass RateLimitMiddleware on routes that install it,
\* and reach the auth handlers as main routes them.
HttpStep(w) ==
    \/ Call(w)
    \/ RLockRegistry(w)
    \/ Lookup(w)
    \/ Create(w)
    \/ LockRegistry(w)
    \/ Insert(w)
    \/ LockVisitor(w)
    \/ Check(w)
    \/ Until(w)
    \/ ReturnToFilter(w)
    \/ Respond(w)
    \/ ServeAuth(w)

HttpNext ==
    \/ Tick
    \/ \E w \in Workers : HttpStep(w)
    \/ ReaperStep

HttpSpec == InitHttp /\ [][HttpNext]_vars

\* The filter deriving the identity of each request.
IpNext == Arrive \/ Derive

IpSpec == InitNotes /\ [][IpNext]_vars

\* --------------------------------------------------------------- claims

\* Number of timestamps of seq in the half-open interval (lo, hi].
CountIn(seq, lo, hi) ==
    Cardinality({k \in DOMAIN seq : seq[k] > lo /\ seq[k] <= hi})

\* C1: quota invariant per identity.  At the instant of every check (performed
\* at time t = callNow), the number of requests admitted for that identity
\* with admission timestamp in (t - window, t] does not exceed rate.  Stated
\* for the configurations the specification requires (cleanup >= window).
C1_QuotaInvariant ==
    \A w \in Workers :
        (pc[w] = "ret" /\ cleanup >= window)
            => CountIn(admitted[ip[w]], callNow[w] - window, callNow[w]) <= rate

\* C2: lazy visitor creation is race-free.  A check that is about to run
\* prune-check-append (it holds the record's lock) never works on a record
\* that another call's insert has replaced in the registry.
C2_CreationRaceFree ==
    \A w \in Workers :
        pc[w] = "check" => visitor[w] \notin overwritten

\* The smaller of two numbers.
Min(x, y) == IF x <= y THEN x ELSE y

\* C3: concurrent burst exactness.  When every check issued so far has
\* returned and all of them ran at the same instant (the clock has not moved,
\* so nothing has expired and no sweep has run), exactly min(N, rate) of the N
\* checks of an identity were admitted.
C3_BurstExact ==
    \A i \in IPs :
        (now = 0 /\ \A w \in Workers : pc[w] = "idle")
            => Len(admitted[i]) = Min(finished[i], rate)

\* C4: the reaper never deletes a visitor while that visitor's lock is held
\* by a check: every step that removes an identity from the registry starts
\* in a state where the removed record's mutex is free.
C4_NoDeleteWhileLocked ==
    [][\A i \in IPs :
         (visitors[i] # Nil /\ visitors'[i] = Nil)
             => heap[visitors[i]].mutex = NoOne]_vars

\* The timestamps admitted on worker w's record before w's own check.
PrevHist(w) ==
    LET h == heap[visitor[w]].hist
    IN  IF res[w].allowed THEN SubSeq(h, 1, Len(h) - 1) ELSE h

\* C5: sliding-window admission decision.  A check at time t on a record found
\* in the registry is admitted if and only if fewer than rate of the record's
\* previously admitted timestamps lie strictly after t - window (a timestamp
\* exactly one window old does not count).
C5_SlidingAdmission ==
    \A w \in Workers :
        (pc[w] = "ret" /\ exists[w])
            => (res[w].allowed
                  <=> CountIn(PrevHist(w), callNow[w] - window, callNow[w]) < rate)

\* C5 witness: a found record with rate earlier admissions, one of them
\* exactly one window old, admits the check.
C5_Witness ==
    \E w \in Workers :
        /\ pc[w] = "ret" /\ exists[w] /\ res[w].allowed
        /\ Len(PrevHist(w)) >= rate
        /\ \E k \in DOMAIN PrevHist(w) : PrevHist(w)[k] = callNow[w] - window

\* A found record that is full inside the window denies the check.
C5_DeniedCase ==
    \E w \in Workers :
        /\ pc[w] = "ret" /\ exists[w] /\ ~res[w].allowed
        /\ callNow[w] > 0

\* C6: resetIn is the exact moment quota becomes available.  A denial
\* computed at time t returns d = (oldest retained timestamp) + window - t;
\* as long as the visitor is not reaped, every later check of the identity at
\* a time before t + d is denied, and the first check at a time >= t + d is
\* admitted.  (blockedUntil is t + d of the identity's pending denial; a check
\* records in sawBlock the value it found.)
C6_ResetExact ==
    \A w \in Workers :
        pc[w] = "ret" =>
            /\ ~res[w].allowed =>
                  res[w].resetIn
                      = (heap[visitor[w]].requests[1] + window) - untilAt[w]
            /\ (sawBlock[w] > 0 /\ callNow[w] < sawBlock[w]) => ~res[w].allowed
            /\ (sawBlock[w] > 0 /\ callNow[w] >= sawBlock[w]) => res[w].allowed

\* C7: a denied check does not change the quota count.  When isAllowed
\* returns allowed = false the record's sequence is the one it found (nothing
\* appended, nothing pruned) and lastSeen is the time of the check.
C7_DenialKeepsSequence ==
    \A w \in Workers :
        (pc[w] = "ret" /\ ~res[w].allowed)
            => /\ heap[visitor[w]].requests = pre[w]
               /\ heap[visitor[w]].lastSeen = callNow[w]

\* C7 witness: a denial at a time later than every retained timestamp, so
\* that lastSeen moved while the sequence stayed.
C7_Witness ==
    \E w \in Workers :
        /\ pc[w] = "ret" /\ ~res[w].allowed
        /\ pre[w] # <<>>
        /\ \A k \in DOMAIN pre[w] : pre[w][k] < callNow[w]

\* C8: admission telemetry.  An admitted check appends exactly its own now to
\* the pruned sequence, returns remaining = rate - (new length) and
\* resetIn = 0; the k-th request admitted on the record inside the window
\* ending at now reports remaining = rate - k.
C8_AdmissionTelemetry ==
    \A w \in Workers :
        (pc[w] = "ret" /\ res[w].allowed)
            => LET reqs == heap[visitor[w]].requests
                   kept == Prune(pre[w], callNow[w] - window)
                   k == CountIn(heap[visitor[w]].hist,
                                callNow[w] - window, callNow[w])
               IN  /\ reqs = Append(kept, callNow[w])
                   /\ res[w].remaining = rate - Len(reqs)
                   /\ res[w].resetIn = 0
                   /\ res[w].remaining = rate - k

\* C8 witness: the rate-th admission inside one window (rate > 1), reporting
\* remaining = 0.
C8_Witness ==
    \E w \in Workers :
        /\ pc[w] = "ret" /\ res[w].allowed
        /\ rate > 1
        /\ Len(heap[visitor[w]].requests) = rate
        /\ res[w].remaining = 0

\* Identity i is registered, requests have stopped for good (the budget of
\* requests is used up and every call has returned), and the clock can
\* still reach a tick later than lastSeen + cleanup.
Quiet(i) ==
    /\ visitors[i] # Nil
    /\ ncalls = budget
    /\ \A w \in Workers : pc[w] = "idle"
    /\ heap[visitors[i]].lastSeen + 2 * cleanup <= MaxTime

\* C9: reaping liveness.  With the ticker firing, a visitor for which no
\* further check is issued is eventually removed from the registry.
C9_ReapedEventually ==
    \A i \in IPs : Quiet(i) ~> (visitors[i] = Nil)

\* C9 witness: requests have stopped and the reaper has emptied the registry
\* of an identity that had been admitted.
C9_Witness ==
    \E i \in IPs :
        /\ ncalls = budget
        /\ \A w \in Workers : pc[w] = "idle"
        /\ admitted[i] # <<>>
        /\ visitors[i] = Nil
        /\ rpc = "wait"

\* C10: absent is equivalent to empty.  A check whose lookup found no
\* registry record (and whose new record no other check reached first)
\* returns (true, rate - 1, 0) and leaves, at its return, a registry record
\* for its identity whose sequence is exactly its one timestamp.
C10_AbsentIsEmpty ==
    \A w \in Workers :
        (pc[w] = "ret" /\ ~exists[w] /\ pre[w] = <<>>)
            => /\ res[w] = [allowed |-> TRUE, remaining |-> rate - 1,
                            resetIn |-> 0]
               /\ visitors[ip[w]] # Nil
               /\ heap[visitors[ip[w]]].requests = <<callNow[w]>>

\* The part of C10 about the returned triple alone.
C10_ReturnedTriple ==
    \A w \in Workers :
        (pc[w] = "ret" /\ ~exists[w] /\ pre[w] = <<>>)
            => res[w] = [allowed |-> TRUE, remaining |-> rate - 1, resetIn |-> 0]

\* C11: an active identity is never reaped.  A reaper step never removes from
\* the registry an identity whose checks so far were never more than cleanup
\* apart and whose latest check is at most cleanup old (so that its next
\* check can still come in time).
C11_ActiveNeverReaped ==
    [][\A i \in IPs :
         (visitors[i] # Nil /\ visitors'[i] = Nil)
             => ~(gapFree[i] /\ lastCheck[i] >= 0
                    /\ now <= lastCheck[i] + cleanup)]_vars

\* C12: check never fails.  On a limiter with positive rate, window and
\* cleanup no isAllowed call panics: the deny branch always finds an oldest
\* request to read, the deferred unlock releases a mutex the call holds, and
\* every call that returns carries a decision (admitted with resetIn = 0, or
\* denied with the reset duration of its oldest request).
C12_CheckNeverFails ==
    \A w \in Workers :
        /\ pc[w] # "panic"
        /\ pc[w] \in {"check", "until", "ret"} => heap[visitor[w]].mutex = w
        /\ pc[w] = "until" => heap[visitor[w]].requests # <<>>
        /\ pc[w] = "ret" =>
              \/ res[w] = Admitted(heap[visitor[w]].requests)
              \/ /\ res[w] = Denied(heap[visitor[w]].requests, res[w].resetIn)
                 /\ res[w].resetIn \in Int

\* C12 witness: a denial has been returned while the other worker's call
\* waits for the same record's lock.
C12_Witness ==
    \E w, u \in Workers :
        /\ pc[w] = "ret" /\ ~res[w].allowed
        /\ pc[u] = "vlock" /\ visitor[u] = visitor[w]

\* C13: misconfiguration is rejected at construction.  No isAllowed call
\* ever runs on a limiter whose rate is not positive.
C13_MisconfigurationRejected ==
    \A w \in Workers : pc[w] # "idle" => rate >= 1

\* strconv.Atoi of a string of digits with an optional sign.
RECURSIVE Atoi(_)
Atoi(s) ==
    LET val(c) == CHOOSE d \in 0..9 : DigitChar[d + 1] = c
    IN  IF s[1] = "-" THEN -Atoi(Tail(s))
        ELSE IF Len(s) = 1 THEN val(s[1])
        ELSE 10 * Atoi(SubSeq(s, 1, Len(s) - 1)) + val(s[Len(s)])

\* C14: filter gating.  Every response RateLimitMiddleware produces comes
\* from exactly one isAllowed call; the next handler runs if and only if
\* that call returned allowed = true; a denial is answered with status 429
\* and a JSON error body and is not forwarded; in both cases the headers
\* X-RateLimit-Limit and X-RateLimit-Remaining carry rate and the returned
\* remaining.
C14_FilterGating ==
    \A w \in Workers :
        out[w].via = "RateLimitMiddleware" =>
            /\ out[w].checks = 1
            /\ (out[w].next # "none") <=> out[w].result.allowed
            /\ ~out[w].result.allowed =>
                  /\ out[w].status = 429
                  /\ out[w].body.success = FALSE
                  /\ out[w].next = "none"
            /\ Atoi(out[w].headers["X-RateLimit-Limit"]) = rate
            /\ Atoi(out[w].headers["X-RateLimit-Remaining"])
                  = out[w].result.remaining

\* C14 witness: one worker's request was forwarded, the other's was
\* answered 429.
C14_Witness ==
    \E w, u \in Workers :
        /\ out[w].via = "RateLimitMiddleware" /\ out[w].next = "next"
        /\ out[u].via = "RateLimitMiddleware" /\ out[u].status = 429

\* C15: auth endpoints are rate limited.  Whenever the Register or Login
\* handler has been dispatched for a request, that request went through one
\* isAllowed call of the auth limiter first.
C15_AuthRateLimited ==
    \A w \in Workers :
        out[w].next \in {"Register", "Login"} => out[w].checks >= 1

\* C16: reset-time monotonic decrease.  When a denial follows an earlier
\* denial of the same identity with no admission and no reaping of that
\* identity since the earlier denial's check,
\* its resetIn is the earlier resetIn minus the time elapsed between the two
\* computations (hence not larger): both denials announce the same instant
\* blockedUntil = (time of the computation) + resetIn.
C16_ResetMonotone ==
    [][\A w \in Workers :
         (pc[w] = "until" /\ pc'[w] = "ret" /\ ~superseded[w]
            /\ blockedUntil[ip[w]] > 0)
             => blockedUntil'[ip[w]] = blockedUntil[ip[w]]]_vars

\* C18: per-record length bound.  In every reachable state, every Visitor
\* record whose lock no check holds has at most rate timestamps.
C18_LengthBound ==
    \A v \in DOMAIN heap :
        heap[v].mutex = NoOne => Len(heap[v].requests) <= rate

\* C18 witness: an unlocked record that is full on a rate-2 limiter, the
\* other worker about to lock it.
C18_Witness ==
    \E v \in DOMAIN heap : \E w \in Workers :
        /\ rate = 2
        /\ heap[v].mutex = NoOne
        /\ Len(heap[v].requests) = rate
        /\ pc[w] = "vlock" /\ visitor[w] = v

\* C19: stale entries are pruned on every check.  When the body of a check
\* made at time callNow has run (admitted or denied), every timestamp of its
\* record is later than callNow - window and not later than callNow.
C19_PrunedOnCheck ==
    \A w \in Workers :
        pc[w] \in {"until", "ret"} =>
            \A k \in DOMAIN heap[visitor[w]].requests :
                /\ heap[visitor[w]].requests[k] > callNow[w] - window
                /\ heap[visitor[w]].requests[k] <= callNow[w]

\* C19 witness: a check that found two timestamps, the older one exactly one
\* window old, dropped it and kept the other.
C19_Witness ==
    \E w \in Workers :
        /\ pc[w] = "ret"
        /\ Len(pre[w]) = 2
        /\ pre[w][1] = callNow[w] - window
        /\ heap[visitor[w]].requests = <<pre[w][2], callNow[w]>>

\* C20: chronological order.  In every reachable state the timestamps of
\* every Visitor record are in non-decreasing order (so requests[0] is the
\* oldest) and none of them is later than the record's lastSeen.
C20_Chronological ==
    \A v \in DOMAIN heap :
        LET reqs == heap[v].requests
        IN  /\ \A j, k \in DOMAIN reqs : j < k => reqs[j] <= reqs[k]
            /\ \A k \in DOMAIN reqs : reqs[k] <= heap[v].lastSeen

\* C20 witness: a record with two timestamps of different instants whose
\* lock the second worker is waiting for.
C20_Witness ==
    \E v \in DOMAIN heap : \E w \in Workers :
        /\ Len(heap[v].requests) = 2
        /\ heap[v].requests[1] < heap[v].requests[2]
        /\ heap[v].mutex \in Workers \ {w}
        /\ pc[w] = "vlock" /\ visitor[w] = v

\* What every state must satisfy for the users' notes to be isolated.
IsolatedState ==
    /\ \A w \in Workers :
          /\ reply[w].note # NoNote => reply[w].note.user_id = reply[w].user
          /\ \A n \in reply[w].notes : n.user_id = reply[w].user
          /\ reply[w].foreign => (reply[w].status = 404 /\ reply[w].note = NoNote)
          /\ reply[w].cachedBy # 0 => reply[w].cachedBy = reply[w].user
    /\ \A u \in Users : \A i \in NoteIDs :
          GenerateNoteDetailKey(i, u) \in DOMAIN redis
              => redis[GenerateNoteDetailKey(i, u)].value.user_id = u

\* A row is changed or removed only by a request of the user it belongs to.
IsolatedStep ==
    \A i \in NoteIDs :
        (db[i] # NoNote /\ db'[i] # db[i])
            => \E w \in Workers :
                   /\ req[w].user = db[i].user_id
                   /\ req[w].id = i
                   /\ req[w].step = "exec" /\ req'[w].step = "invalidate"

InSection(w) == pc[w] \in {"check", "until", "ret", "panic"}

\* No two checks are inside the locked section of one record, and a check
\* inside it holds the record's mutex.
ExclusiveSection ==
    \A w \in Workers :
        InSection(w) =>
            /\ heap[visitor[w]].mutex = w
            /\ \A u \in Workers \ {w} :
                   InSection(u) => visitor[u] # visitor[w]

\* A record's sequence and lastSeen change only in the body of the one check
\* that holds its mutex.
OnlyHolderWrites ==
    \A v \in DOMAIN heap :
        (heap'[v].requests # heap[v].requests
            \/ heap'[v].lastSeen # heap[v].lastSeen)
            => \E w \in Workers :
                   /\ pc[w] = "check" /\ visitor[w] = v /\ heap[v].mutex = w
                   /\ pc'[w] \in {"until", "ret", "panic"}
                   /\ heap'[v].mutex = w

\* C21: atomic critical section.  Prune, lastSeen update, comparison and
\* append of a check run while the check holds the record's exclusive lock:
\* at most one check is between Lock and Unlock of a given Visitor record,
\* and nothing but that check changes the record's sequence or lastSeen.
C21_AtomicSection == [] ExclusiveSection /\ [][OnlyHolderWrites]_vars

\* C21 witness: a check holds the lock of a record with an earlier timestamp
\* and has not run its body yet, while the other worker waits for the lock.
C21_Witness ==
    \E w, u \in Workers :
        /\ pc[w] = "check" /\ heap[visitor[w]].requests # <<>>
        /\ pc[u] = "vlock" /\ visitor[u] = visitor[w]

\* Goroutine p (a worker or the reaper) holds one of the locks.
Holds(p) ==
    \/ rlWriter = p
    \/ p \in rlReaders
    \/ \E v \in DOMAIN heap : heap[v].mutex = p

\* A call or a sweep is under way.
Running == (\E w \in Workers : pc[w] # "idle") \/ rpc # "wait"

\* Whenever a call or a sweep is under way, one of them can take a step.
NoDeadlock ==
    Running =>
        ENABLED ((\E w \in Workers : Progress(w))
                    \/ ReapLock \/ ReapRead \/ ReapDecide \/ ReapUnlock)

\* A worker that is not inside a call and a reaper that is not inside a
\* sweep hold no lock.
LocksReleased ==
    /\ \A w \in Workers : pc[w] = "idle" => ~Holds(w)
    /\ rpc \in {"wait", "lock"} => ~Holds(Reaper)

WorkerWaitsFor(u) ==
    CASE pc[u] = "rlock" -> {rlWriter} \ {NoOne}
      [] pc[u] = "wlock" -> ({rlWriter} \cup rlReaders) \ {NoOne}
      [] pc[u] = "vlock" -> {heap[visitor[u]].mutex} \ {NoOne}
      [] OTHER -> {}

\* The goroutines that hold a lock the reaper is waiting for: the registry
\* lock before the sweep, the mutex of a record it has still to read.
ReaperWaitsFor ==
    CASE rpc = "lock" -> ({rlWriter} \cup rlReaders) \ {NoOne}
      [] rpc = "scan" -> {heap[visitors[i]].mutex : i \in rtodo} \ {NoOne}
      [] OTHER -> {}

\* C23: two-level locking.  While a check of identity A is inside its locked
\* section, a check of a different identity B never waits for it: neither
\* for a lock A's check holds, nor for the registry lock held by a reaper
\* that itself waits for the mutex A's check holds.
C23_UnrelatedNotBlocked ==
    \A w, u \in Workers :
        (InSection(w) /\ pc[u] # "idle" /\ ip[u] # ip[w])
            => /\ w \notin WorkerWaitsFor(u)
               /\ ~(Reaper \in WorkerWaitsFor(u) /\ w \in ReaperWaitsFor)

\* C24: reported headroom is never negative.  Every isAllowed call on a
\* limiter with rate >= 1 returns 0 <= remaining <= rate - 1; a denied call
\* returns remaining = 0 and resetIn > 0, an admitted call resetIn = 0.
C24_Headroom ==
    \A w \in Workers :
        (pc[w] = "ret" /\ rate >= 1) =>
            /\ res[w].remaining >= 0
            /\ res[w].remaining <= rate - 1
            /\ ~res[w].allowed => (res[w].remaining = 0 /\ res[w].resetIn > 0)
            /\ res[w].allowed => res[w].resetIn = 0

\* The part of C24 about remaining alone.
C24_RemainingRange ==
    \A w \in Workers :
        (pc[w] = "ret" /\ rate >= 1) =>
            /\ res[w].remaining >= 0
            /\ res[w].remaining <= rate - 1
            /\ ~res[w].allowed => res[w].remaining = 0
            /\ res[w].allowed => res[w].resetIn = 0

\* The 429 answer o, written when the clock read t, carries the retry
\* guidance of the denial it answers.
Guidance(o, t) ==
    LET d == o.result.resetIn
    IN  /\ o.body.retry_after = Seconds(d)
        /\ "Retry-After" \in DOMAIN o.headers
        /\ Atoi(o.headers["Retry-After"]) = Seconds(d)
        /\ "X-RateLimit-Reset" \in DOMAIN o.headers
        /\ Atoi(o.headers["X-RateLimit-Reset"]) = Unix(t + d)

\* C25: retry guidance on denial.  Every 429 response carries retry_after in
\* its body and a Retry-After header, both equal to resetIn truncated to
\* whole seconds, and an X-RateLimit-Reset header equal to the epoch second
\* of (the time the answer is written) + resetIn.
C25_RetryGuidance ==
    [][\A w \in Workers :
         (out'[w] # out[w] /\ out'[w].status = 429) => Guidance(out'[w], now')]_vars

\* The part of C25 about denials that return a positive resetIn.
C25_GuidanceWhenPositive ==
    [][\A w \in Workers :
         (out'[w] # out[w] /\ out'[w].status = 429
            /\ out'[w].result.resetIn > 0) => Guidance(out'[w], now')]_vars

\* The first comma-separated entry of s: strings.Split(s, ",")[0].
RECURSIVE FirstEntry(_)
FirstEntry(s) ==
    IF s = <<>> \/ s[1] = "," THEN <<>> ELSE <<s[1]>> \o FirstEntry(Tail(s))

\* C26: identity derivation.  getClientIP returns the first comma-separated
\* entry of X-Forwarded-For when that header is not empty (whatever its
\* value), otherwise X-Real-IP when it is not empty, otherwise the peer
\* address.
C26_IdentityDerivation ==
    clientIP # Unset =>
        clientIP = IF header.xff # <<>> THEN FirstEntry(header.xff)
                   ELSE IF header.xri # <<>> THEN header.xri
                   ELSE header.peer

\* The part of C26 about header values that do not begin with a comma.
C26_NoLeadingComma ==
    (clientIP # Unset /\ (header.xff = <<>> \/ header.xff[1] # ","))
        => clientIP = IF header.xff # <<>> THEN FirstEntry(header.xff)
                      ELSE IF header.xri # <<>> THEN header.xri
                      ELSE header.peer

\* C27: reaping never restores quota early when cleanup >= window.  Under
\* such a configuration, at the moment the reaper deletes a visitor from the
\* registry the visitor's sequence holds no timestamp inside the trailing
\* window (later than now - window).
C27_ReapedHasNoQuota ==
    [][\A i \in IPs :
         (cleanup >= window /\ visitors[i] # Nil /\ visitors'[i] = Nil)
             => \A k \in DOMAIN heap[visitors[i]].requests :
                    heap[visitors[i]].requests[k] <= now - window]_vars

\* The Visitor records of identity j: the one in the registry and those the
\* calls for j work on.
RecordsOf(j) ==
    ({visitors[j]} \cup {visitor[u] : u \in {x \in Workers : pc[x] # "idle"
                                                            /\ ip[x] = j}})
        \ {Nil}

\* No Visitor record belongs to two identities.
NoSharedRecord ==
    \A i, j \in IPs : i # j => RecordsOf(i) \cap RecordsOf(j) = {}

\* A denial is owed to the identity's own admissions: at least rate of them
\* lie inside the window of the denied check.
DenialIsOwn ==
    \A w \in Workers :
        (pc[w] = "ret" /\ ~res[w].allowed)
            => CountIn(admitted[ip[w]], callNow[w] - window, callNow[w]) >= rate

\* A step of a call for one identity leaves the registry entry and the
\* records of every other identity as they are.
OthersUntouched ==
    \A w \in Workers :
        (pc[w] # "idle" /\ pc'[w] # pc[w]) =>
            \A j \in IPs \ {ip[w]} :
                /\ visitors'[j] = visitors[j]
                /\ admitted'[j] = admitted[j]
                /\ \A v \in RecordsOf(j) : heap'[v] = heap[v]

\* C28: identities are accounted independently.  An isAllowed call for
\* identity A leaves the registry entry, the timestamp sequence and lastSeen
\* of every other identity B unchanged; no record is shared between
\* identities, and a denial for B always rests on rate admissions of B
\* itself inside the window, whatever A has used.
C28_Independent ==
    [](NoSharedRecord /\ DenialIsOwn) /\ [][OthersUntouched]_vars

\* C28 witness: identity a has just been denied (its quota is used up) and a
\* check of identity b made no earlier returns admitted.
C28_Witness ==
    \E w, u \in Workers :
        /\ pc[w] = "ret" /\ ip[w] = "a" /\ ~res[w].allowed
        /\ pc[u] = "ret" /\ ip[u] = "b" /\ res[u].allowed
        /\ callNow[u] >= callNow[w]

\* C29: cache coherence after a write.  A GetNote for (n, u) that started
\* when every UpdateNote and DeleteNote of note n had completed (table write
\* and cache invalidation), and during which no write of n changed the
\* table, answers with the row the table holds: the updated note with 200,
\* or 404 when the note is gone.
C29_CoherentAfterWrite ==
    [][\A w \in Workers :
         (req[w].op = "GetNote" /\ req[w].fresh /\ req'[w].step = "idle")
             => /\ reply'[w].note = GetByID(db, req[w].id, req[w].user)
                /\ reply'[w].status
                       = IF GetByID(db, req[w].id, req[w].user) = NoNote
                         THEN 404 ELSE 200]_vars

\* C30: the cache is transparent for note listings.  A GetNotes answered
\* from the cache returns the list and the total (the pagination metadata)
\* that the request which stored the cache entry returned.
C30_ListCacheTransparent ==
    [][\A w \in Workers :
         (req[w].op = "GetNotes" /\ req[w].step = "cacheget"
            /\ req'[w].step = "idle")
             => LET data == redis[GenerateNotesListKey(req[w].user, 1, 10)].value
                IN  /\ reply'[w].notes = data.notes
                    /\ reply'[w].total = data.total]_vars

\* The part of C30 about the pagination metadata.
C30_TotalFromCache ==
    [][\A w \in Workers :
         (req[w].op = "GetNotes" /\ req[w].step = "cacheget"
            /\ req'[w].step = "idle")
             => reply'[w].total
                    = redis[GenerateNotesListKey(req[w].user, 1, 10)].value.total]_vars

====
